---- MODULE Spec2Model ----
(***************************************************************************)
(* The session service of wa-puppet: one request (POST /session or POST    *)
(* /session-async) driving one login attempt through a browser, the        *)
(* anti-captcha solver, the cookie harvest and the reply or webhook.       *)
(*                                                                         *)
(* The repository holds four copies of the workflow.  `variant' selects    *)
(* the copy an execution runs:                                             *)
(*   "main"        src/index.js                                            *)
(*   "ui"          src/unnamed/part_000, lines 133-678                     *)
(*   "legacy"      src/unnamed/part_000, lines 679-1025                    *)
(*   "serverless"  src/unnamed/part_001                                    *)
(*                                                                         *)
(* Time is in milliseconds.  Error messages are sequences of words; the    *)
(* substring test of the code is the contiguous-subsequence test Includes. *)
(*                                                                         *)
(* Spec follows one request in detail, every external call settling.       *)
(* SpecLive adds the external calls that never settle and the scheduling   *)
(* of the event loop.  SpecConcurrent interleaves several requests, each   *)
(* reduced to the steps that touch a browser or the process environment.   *)
(***************************************************************************)
EXTENDS Integers, Sequences, FiniteSets, TLC

(* ---- bounds of the model ---- *)
\* how many slow external answers one attempt may meet
MaxSlow == 2
\* the latency of a slow external answer, in ms
LatencyStep == 45000
\* how many requests are in flight at once
MaxInFlight == 2

(* ---- constants of the program ---- *)
maxAttempts == 20
interval == 3000
maxWaitTime == 90000
legacyAttempts == 15
legacyInterval == 4000
\* the validity of a solved token, from the solver's submission
tokenValidity == 120000
injectSettle == 2000
uiInjectSettle == 1000
postLoginSettle == 3000
uiPostLoginSettle == 2000
maxRetries == 20
retryInterval == 500
expiryOffset == 1500000

Variants == {"main", "ui", "legacy", "serverless"}

\* The environment of one execution varies on one side and is plain on the
\* others: in "page" the target page varies (selectors, captcha fields); in
\* "solver" the solver varies (latencies, statuses); in "cookies" the cookie
\* store varies from reading to reading.  Failures of the browser, the
\* solver and the target are possible at every step of every scenario.
Scenarios == {"page", "solver", "cookies"}

\* getTaskResult with the wall-clock budget and the status checks
WallClockVariants == {"main", "ui"}
\* the variants registering POST /session-async and processAuthAsync
AsyncVariants == {"main", "ui"}
\* the variants whose harvest is the retry loop
HarvestLoopVariants == {"main", "ui", "legacy"}

captchaSelectors == <<"#desktop-captcha", ".g-recaptcha", "[data-sitekey]">>
cookiePick == <<"ASP.NET_SessionId", ".micrologicAUTH", "r_ssoCookie">>

(* ---- words and messages ---- *)
\* String.prototype.includes on a message
Includes(msg, pat) ==
    \E k \in 0..(Len(msg) - Len(pat)) : SubSeq(msg, k + 1, k + Len(pat)) = pat

\* the free text an external party (browser, page, solver) may put in a failure
AllTexts ==
    { <<"net::ERR_FAILED">>,
      <<"401", "Unauthorized">>,
      <<"invalid", "credentials">>,
      <<"Captcha", "timeout">>,
      <<"2FA", "enabled">>,
      <<"Missing", "required", "cookies">> }

NoError == [kind |-> "none", message |-> <<>>]
Error(kind, message) == [kind |-> kind, message |-> message]

MsgNoBody ==
    <<"Cannot", "destructure", "property", "'user'", "of", "'request.body'",
      "as", "it", "is", "undefined.">>
MsgSitekey == <<"Could", "not", "extract", "reCAPTCHA", "sitekey", "from", "page">>
MsgCreateTask(desc) == <<"Anti-captcha", "create", "task", "error:">> \o desc
MsgGetResult(desc) == <<"Anti-captcha", "get", "result", "error:">> \o desc
MsgTimeoutWall(elapsed) ==
    <<"Captcha", "timeout", "after", ToString(elapsed), "ms", "-", "token",
      "would", "expire">>
MsgTimeoutAttempts(n, elapsed) ==
    <<"Captcha", "timeout", "after", ToString(n), "attempts", ToString(elapsed), "ms">>
MsgTimeoutLegacy == <<"Captcha", "timeout">>
MsgUnexpected(status) == <<"Unexpected", "captcha", "status:", status>>
MsgInjectError(text) == <<"Failed", "to", "inject", "captcha", "token:">> \o text
MsgInjectFields ==
    <<"Failed", "to", "find", "required", "captcha", "fields", "on", "page">>
MsgInjectUi == <<"Failed", "to", "inject", "captcha", "token", "into", "page">>
MsgVerify ==
    <<"Captcha", "token", "was", "not", "properly", "set", "in", "both",
      "required", "fields">>
MsgVerifyUi ==
    <<"Captcha", "token", "was", "not", "properly", "set", "in", "the", "form">>
MsgLoginRequest(text) == <<"Login", "request", "failed:">> \o text
MsgLoginStatus(status) == <<"Login", "failed", "with", "status", ToString(status)>>
MsgTwoFA ==
    <<"2FA", "enabled", "-", "abort", "/", "ask", "user", "to", "disable">>
MsgMissing(names) ==
    <<"Missing", "required", "cookies", "after",
      ToString(maxRetries * retryInterval), "ms:">> \o names

(* ---- the state ---- *)
VARIABLES
    variant,          \* the copy of the workflow this execution runs
    scenario,         \* the side of the environment this execution varies
    req,              \* the inbound request
    hpc,              \* position of the HTTP handler / asynchronous task
    replies,          \* the HTTP responses sent for the request, in order
    webhooks,         \* the webhook deliveries attempted, in order
    taskRaised,       \* an exception escaped processAuthAsync
    lpc,              \* position of login
    browser,          \* "none", "open", "closed"
    launches,         \* browsers launched by the attempt
    closes,           \* calls of browser.close()
    err,              \* the exception login is unwinding with
    result,           \* the value login returns
    now,              \* Date.now()
    slowLeft,         \* slow external answers still allowed by the bound
    sitekey,
    selectorsTried,   \* selectors evaluated by the site-key extraction
    taskId,
    createCalls,      \* calls of createTask
    createErrorId,    \* the errorId of the answer to createTask (-1: no answer)
    scan,             \* trace of the site-key extraction
    typed,            \* credential fields typed so far
    captchaStartTime,
    startTime,        \* getTaskResult: startTime
    i,                \* getTaskResult: loop index
    poll,             \* trace of getTaskResult
    token,
    dom,              \* the two captcha fields of the page
    submitted,        \* trace of the form submission
    probe,            \* trace of the second-factor probe
    attempt,          \* harvest: loop index
    filteredCookies,  \* harvest: filteredCookies
    harvest,          \* trace of the harvest
    inflight,         \* concurrent requests: the state of each one
    handles,            \* concurrent requests: the `browser' variable of each login call
    pool,             \* concurrent requests: the browsers puppeteer has launched
    tlsReject         \* process.env.NODE_TLS_REJECT_UNAUTHORIZED is not '0'

hv == <<req, hpc, replies, webhooks, taskRaised>>
bv == <<browser, launches, closes>>
tv == <<now, slowLeft>>
cv == <<sitekey, selectorsTried, taskId, createCalls, createErrorId, scan, typed,
       captchaStartTime>>
pv == <<startTime, i, poll, token>>
dv == <<dom, submitted, probe>>
kv == <<attempt, filteredCookies, harvest>>
rv == <<err, result>>
conc == <<inflight, handles, pool, tlsReject>>
single == <<variant, scenario, hv, lpc, bv, tv, cv, pv, dv, kv, rv>>
vars == <<single, conc>>


\* the free texts met in one execution
FreeTexts ==
    IF scenario = "page" THEN AllTexts
    ELSE { <<"net::ERR_FAILED">>, <<"401", "Unauthorized">> }

(* ---- initial state ---- *)
Present == {"", "x"}
WebhookUrls == {"", "not a url", "https://caller.example/hook"}

SyncRequests ==
    { [endpoint |-> "session", method |-> "POST", hasBody |-> TRUE, user |-> u,
       pass |-> p, code |-> c, request_id |-> "", webhook_url |-> ""] :
        u \in Present, p \in Present, c \in Present }
    \cup { [endpoint |-> "session", method |-> "POST", hasBody |-> FALSE, user |-> "",
            pass |-> "", code |-> "", request_id |-> "", webhook_url |-> ""] }

AsyncRequests ==
    { [endpoint |-> "session-async", method |-> "POST", hasBody |-> TRUE,
       user |-> r[1], pass |-> r[2], code |-> r[3], request_id |-> r[4],
       webhook_url |-> w] :
        r \in [1..4 -> Present], w \in WebhookUrls }
    \cup { [endpoint |-> "session-async", method |-> "POST", hasBody |-> FALSE,
            user |-> "", pass |-> "", code |-> "", request_id |-> "",
            webhook_url |-> ""] }

\* the serverless function is invoked for every method
ServerlessRequests ==
    { [endpoint |-> "session", method |-> "GET", hasBody |-> FALSE, user |-> "",
       pass |-> "", code |-> "", request_id |-> "", webhook_url |-> ""] }

NoPoll ==
    [requests |-> 0, answers |-> 0, sentElapsed |-> -1, returnedElapsed |-> -1,
     unknownAt |-> 0, allProcessing |-> TRUE, typedAtFirst |-> -1, outcome |-> "none"]
NoScan == [done |-> FALSE, first |-> 0, key |-> ""]
NoDom == [textarea |-> "absent", field |-> "absent"]
NoSubmit == [done |-> FALSE, at |-> -1, strategy |-> "none", nav |-> "none",
             status |-> 0, error |-> FALSE]
NoProbe == [asked |-> FALSE, enabled |-> FALSE, outcome |-> "none"]
NoHarvest ==
    [reads |-> 0, seen |-> {}, complete |-> FALSE, waits |-> 0, outcome |-> "none"]
NoResult == [cookies |-> <<>>, expires |-> -1]

InFlight == 1..MaxInFlight
NoOutcome == [request |-> 0, success |-> FALSE, session |-> 0]
NotArrived == [flow |-> "none", pc |-> "absent", failure |-> "none", cert |-> "none",
               session |-> 0, out |-> NoOutcome]

Init ==
    /\ variant \in Variants
    /\ scenario \in Scenarios
    /\ req \in SyncRequests
               \cup (IF variant \in AsyncVariants THEN AsyncRequests ELSE {})
               \cup (IF variant = "serverless" THEN ServerlessRequests ELSE {})
    /\ hpc = "recv"
    /\ replies = <<>>
    /\ webhooks = <<>>
    /\ taskRaised = FALSE
    /\ lpc = "idle"
    /\ browser = "none"
    /\ launches = 0
    /\ closes = 0
    /\ err = NoError
    /\ result = NoResult
    /\ now = 0
    /\ slowLeft = (IF scenario = "solver" THEN MaxSlow ELSE 0)
    /\ sitekey = ""
    /\ selectorsTried = 0
    /\ taskId = ""
    /\ createCalls = 0
    /\ createErrorId = -1
    /\ scan = NoScan
    /\ typed = 0
    /\ captchaStartTime = -1
    /\ startTime = -1
    /\ i = 0
    /\ poll = NoPoll
    /\ token = ""
    /\ dom = NoDom
    /\ submitted = NoSubmit
    /\ probe = NoProbe
    /\ attempt = 0
    /\ filteredCookies = <<>>
    /\ harvest = NoHarvest
    /\ inflight = [a \in InFlight |-> NotArrived]
    /\ handles = [a \in InFlight |-> 0]
    /\ pool = <<>>
    /\ tlsReject = TRUE

(* ---- the HTTP boundary ---- *)
Reply(status, error, body) == [status |-> status, error |-> error, body |-> body]

MissingFields(r) == r.user = "" \/ r.pass = "" \/ r.code = ""

\* new URL(webhook_url) succeeds
ParsableUrl(u) == u = "https://caller.example/hook"

\* the catch block of POST /session
MapError(v, msg) ==
    IF Includes(msg, <<"2FA", "enabled">>) THEN Reply(428, msg, NoResult)
    ELSE IF Includes(msg, <<"Captcha", "timeout">>)
    THEN Reply(428, <<"Captcha", "solver", "timed", "out">>, NoResult)
    ELSE IF v # "serverless" /\ Includes(msg, <<"Missing", "required", "cookies">>)
    THEN Reply(500, <<"Authentication", "cookies", "not", "received", "-", "login",
                      "may", "have", "failed">>, NoResult)
    ELSE IF Includes(msg, <<"credentials">>) \/ Includes(msg, <<"401">>)
    THEN Reply(400, <<"Invalid", "credentials">>, NoResult)
    ELSE Reply(500, <<"Internal", "server", "error">>, NoResult)

MsgMissingSync == <<"Missing", "required", "fields:", "user,", "pass,", "code">>
MsgMissingAsync ==
    <<"Missing", "required", "fields:", "request_id,", "webhook_url,", "user,",
      "pass,", "code">>

\* POST /session up to the call of login
SessionHandler ==
    /\ hpc = "recv"
    /\ req.endpoint = "session"
    /\ IF variant = "serverless" /\ req.method # "POST"
       THEN /\ replies' = Append(replies, Reply(405, <<"Method", "not", "allowed">>, NoResult))
            /\ hpc' = "end"
            /\ lpc' = lpc
       ELSE IF ~req.hasBody
       THEN /\ replies' = Append(replies, MapError(variant, MsgNoBody))
            /\ hpc' = "end"
            /\ lpc' = lpc
       ELSE IF MissingFields(req)
       THEN /\ replies' = Append(replies, Reply(400, MsgMissingSync, NoResult))
            /\ hpc' = "end"
            /\ lpc' = lpc
       ELSE /\ replies' = replies
            /\ hpc' = "awaitLogin"
            /\ lpc' = "launch"
    /\ UNCHANGED <<conc, variant, scenario, req, webhooks, taskRaised, bv, tv, cv, pv, dv, kv, rv>>

\* reply.send(result): the body of the synchronous success response
SuccessBody(r) == [cookies |-> r.cookies, expires |-> r.expires]

\* POST /session once login has returned or thrown
SessionReply ==
    /\ hpc = "awaitLogin"
    /\ lpc = "done"
    /\ replies' = Append(replies,
                         IF err.kind = "none" THEN Reply(200, <<>>, SuccessBody(result))
                         ELSE MapError(variant, err.message))
    /\ hpc' = "end"
    /\ UNCHANGED <<conc, variant, scenario, req, webhooks, taskRaised, lpc, bv, tv, cv, pv, dv, kv, rv>>

\* the body of the 202 acknowledgment
Ack(r) ==
    [success |-> TRUE, message |-> <<"Authentication", "request", "queued">>,
     request_id |-> r.request_id]

AwaitsWorkflow(v) == FALSE

\* the handler hands processAuthAsync to setImmediate and answers without
\* waiting for it
DefersWorkflow(v) == TRUE

\* POST /session-async: validation, setImmediate, acknowledgment
SessionAsyncHandler ==
    /\ hpc = "recv"
    /\ req.endpoint = "session-async"
    /\ IF ~req.hasBody
       THEN /\ replies' = Append(replies, Reply(500, <<"Internal", "server", "error">>, NoResult))
            /\ hpc' = "end"
       ELSE IF req.request_id = "" \/ req.webhook_url = "" \/ MissingFields(req)
       THEN /\ replies' = Append(replies, Reply(400, MsgMissingAsync, NoResult))
            /\ hpc' = "end"
       ELSE IF ~ParsableUrl(req.webhook_url)
       THEN /\ replies' = Append(replies, Reply(400, <<"Invalid", "webhook_url", "format">>, NoResult))
            /\ hpc' = "end"
       ELSE /\ replies' = IF DefersWorkflow(variant)
                           THEN Append(replies, Reply(202, <<>>, Ack(req)))
                           ELSE replies
            /\ hpc' = "queued"
    /\ UNCHANGED <<conc, variant, scenario, req, webhooks, taskRaised, lpc, bv, tv, cv, pv, dv, kv, rv>>

\* the setImmediate callback: processAuthAsync starts and calls login
ProcessAuthAsyncStart ==
    /\ hpc = "queued"
    /\ hpc' = "task"
    /\ lpc' = "launch"
    /\ UNCHANGED <<conc, variant, scenario, req, replies, webhooks, taskRaised, bv, tv, cv, pv, dv, kv, rv>>

WebhookOutcomes == {"delivered", "non2xx", "networkError"}

CallWebhookRethrows(outcome) == outcome # "delivered"

\* callWebhook raises to its caller
CallWebhookRaises(outcome) == FALSE

Delivery(payload, outcome) == [payload |-> payload, outcome |-> outcome]

SuccessPayloadWithoutExpiry(r) ==
    [request_id |-> req.request_id, success |-> TRUE, cookies |-> r.cookies,
     expires |-> -1, error |-> <<>>]

SuccessPayload(r) ==
    [request_id |-> req.request_id, success |-> TRUE, cookies |-> r.cookies,
     expires |-> r.expires, error |-> <<>>]
FailurePayload(msg) ==
    [request_id |-> req.request_id, success |-> FALSE, cookies |-> <<>>,
     expires |-> -1, error |-> <<"Authentication", "failed:">> \o msg]
MsgWebhook(outcome) == <<"Webhook", "call", "failed:", outcome>>

\* processAuthAsync from the return of login to its own end
ProcessAuthAsyncDeliver ==
    /\ hpc = "task"
    /\ lpc = "done"
    /\ \E o1 \in WebhookOutcomes, o2 \in WebhookOutcomes :
          IF err.kind = "none"
          THEN IF CallWebhookRaises(o1)
               THEN /\ webhooks' = webhooks \o
                          << Delivery(SuccessPayload(result), o1),
                             Delivery(FailurePayload(MsgWebhook(o1)), o2) >>
                    /\ taskRaised' = CallWebhookRaises(o2)
               ELSE /\ webhooks' = Append(webhooks, Delivery(SuccessPayload(result), o1))
                    /\ taskRaised' = FALSE
          ELSE /\ webhooks' = Append(webhooks, Delivery(FailurePayload(err.message), o1))
               /\ taskRaised' = CallWebhookRaises(o1)
    /\ replies' = IF DefersWorkflow(variant) THEN replies
                   ELSE Append(replies, Reply(202, <<>>, Ack(req)))
    /\ hpc' = "end"
    /\ UNCHANGED <<conc, variant, scenario, req, lpc, bv, tv, cv, pv, dv, kv, rv>>

(* ---- login: throwing and the finally block ---- *)
Swallow(e) ==
    /\ err' = err
    /\ lpc' = "finally"

\* an exception leaves the try block: catch rethrows it, finally runs
Throw(e) ==
    /\ err' = e
    /\ lpc' = "finally"

CloseOnlyOnSuccess(b, e) == b # "none" /\ e.kind = "none"

\* the finally block calls browser.close()
FinallyCloses(b, e) == b # "none"

\* browser.close() resolves, or rejects with a text of the driver
CloseOutcomes ==
    {[ok |-> TRUE, text |-> <<>>]}
    \cup {[ok |-> FALSE,
           text |-> <<"Protocol", "error", "(Browser.close):", "Target", "closed">>]}

\* finally { if (browser) await browser.close() }
Finally ==
    /\ lpc = "finally"
    /\ lpc' = "done"
    /\ IF FinallyCloses(browser, err)
       THEN \E o \in CloseOutcomes :
              /\ closes' = closes + 1
              /\ browser' = "closed"
              /\ IF o.ok
                 THEN UNCHANGED rv
                 ELSE /\ err' = Error("CloseError", o.text)
                      /\ result' = NoResult
       ELSE UNCHANGED <<closes, browser, rv>>
    /\ UNCHANGED <<conc, variant, scenario, hv, launches, tv, cv, pv, dv, kv>>

(* ---- login: launch to the site key ---- *)
Delays == {0} \cup (IF slowLeft > 0 THEN {LatencyStep} ELSE {})
Spend(d) == slowLeft' = (IF d > 0 THEN slowLeft - 1 ELSE slowLeft)

Launch ==
    /\ lpc = "launch"
    /\ \/ /\ browser' = "open"
          /\ launches' = launches + 1
          /\ lpc' = "newPage"
          /\ UNCHANGED rv
       \/ /\ \E t \in FreeTexts : err' = Error("BrowserError", t)
          /\ lpc' = "finally"
          /\ UNCHANGED <<browser, launches, result>>
    /\ UNCHANGED <<conc, variant, scenario, hv, closes, tv, cv, pv, dv, kv>>

NewPage ==
    /\ lpc = "newPage"
    /\ \/ /\ lpc' = "goto"
          /\ UNCHANGED rv
       \/ /\ \E t \in FreeTexts : Throw(Error("BrowserError", t))
          /\ UNCHANGED result
    /\ UNCHANGED <<conc, variant, scenario, hv, bv, tv, cv, pv, dv, kv>>

\* the captcha fields the loaded page holds
LoadedDoms ==
    IF scenario = "page"
    THEN [textarea : {"absent", ""}, field : {"absent", "", "stale"}]
    ELSE {[textarea |-> "", field |-> ""]}

Goto ==
    /\ lpc = "goto"
    /\ \/ /\ lpc' = "sitekey"
          /\ dom' \in LoadedDoms
          /\ UNCHANGED rv
       \/ /\ \E t \in FreeTexts : Throw(Error("NavigationError", t))
          /\ UNCHANGED <<result, dom>>
    /\ UNCHANGED <<conc, variant, scenario, hv, bv, tv, cv, pv, submitted, probe, kv>>


SelOutcomes == {"throw", "", "keyA", "keyB"}
MsgSelector ==
    <<"Error:", "failed", "to", "find", "element", "matching", "selector",
      "#desktop-captcha">>

\* the for loop over captchaSelectors: the key found and the selectors evaluated
RECURSIVE ScanSelectors(_, _, _)
ScanSelectors(f, k, cur) ==
    IF k > Len(captchaSelectors) THEN [key |-> cur, tried |-> Len(captchaSelectors)]
    ELSE IF f[k] = "throw" THEN ScanSelectors(f, k + 1, cur)
    ELSE IF f[k] # "" THEN [key |-> f[k], tried |-> k]
    ELSE ScanSelectors(f, k + 1, f[k])

\* what page.$eval answers for each selector, in the order of captchaSelectors
SelectorAnswers ==
    IF scenario = "page" THEN [1..Len(captchaSelectors) -> SelOutcomes]
    ELSE {[k \in 1..Len(captchaSelectors) |-> "keyA"]}

\* the page seen through the answers f: the first selector, in the order of
\* f, whose element carries a non-empty site key (0: none does)
FirstKey(f) ==
    LET hits == { k \in 1..Len(f) : f[k] \notin {"throw", ""} }
    IN IF hits = {} THEN [done |-> TRUE, first |-> 0, key |-> ""]
       ELSE LET k == CHOOSE h \in hits : \A j \in hits : h <= j
            IN [done |-> TRUE, first |-> k, key |-> f[k]]

\* site-key extraction, up to the call of createTask
ExtractSitekey ==
    /\ lpc = "sitekey"
    /\ IF variant \in {"main", "ui"}
       THEN \E f \in SelectorAnswers :
              LET r == ScanSelectors(f, 1, "") IN
              /\ scan' = FirstKey(f)
              /\ selectorsTried' = r.tried
              /\ sitekey' = r.key
              /\ IF r.key = ""
                 THEN /\ Throw(Error("ChallengeNotFoundError", MsgSitekey))
                      /\ UNCHANGED captchaStartTime
                 ELSE /\ lpc' = "createTask"
                      /\ captchaStartTime' = now
                      /\ err' = err
       ELSE \E o \in {f[1] : f \in SelectorAnswers} :
              /\ selectorsTried' = 1
              /\ scan' = FirstKey(<<o>>)
              /\ IF o = "throw"
                 THEN /\ Throw(Error("ChallengeNotFoundError", MsgSelector))
                      /\ UNCHANGED <<sitekey, captchaStartTime>>
                 ELSE /\ lpc' = "createTask"
                      /\ sitekey' = o
                      /\ captchaStartTime' = now
                      /\ err' = err
    /\ UNCHANGED <<conc, variant, scenario, hv, bv, tv, taskId, createCalls, createErrorId,
                   typed, pv, dv, kv, result>>

(* ---- the solver client ---- *)
PollsBeforeFilling(v) == FALSE

\* credential filling comes before the wait for the token
FillsBeforePolling(v) == v \in {"main", "ui"}

CreateAnswers ==
    {[errorId |-> 0, desc |-> <<>>]} \cup {[errorId |-> 1, desc |-> t] : t \in FreeTexts}

IgnoresErrorId(errorId) == FALSE

\* if (data.errorId !== 0) throw
CreateRejected(errorId) == errorId # 0

\* createTask, and the statement of login that follows it
CreateTask ==
    /\ lpc = "createTask"
    /\ createCalls' = createCalls + 1
    /\ \E d \in Delays :
         /\ now' = now + d
         /\ Spend(d)
         /\ \/ \E a \in CreateAnswers :
                 /\ createErrorId' = a.errorId
                 /\ IF CreateRejected(a.errorId)
                    THEN /\ Throw(Error("SolverRejectedError", MsgCreateTask(a.desc)))
                         /\ UNCHANGED <<taskId, startTime>>
                    ELSE /\ taskId' = "task1"
                         /\ err' = err
                         /\ IF FillsBeforePolling(variant)
                            THEN /\ lpc' = "fill"
                                 /\ UNCHANGED startTime
                            ELSE /\ lpc' = "pollWait"
                                 /\ startTime' = now'
            \/ /\ \E t \in FreeTexts : Throw(Error("FetchError", t))
               /\ UNCHANGED <<taskId, startTime, createErrorId>>
    /\ UNCHANGED <<conc, variant, scenario, hv, bv, sitekey, selectorsTried, scan, typed, captchaStartTime,
                   i, poll, token, dv, kv, result>>

\* the three page.type calls, and the statement of login that follows them
FillForm ==
    /\ lpc = "fill"
    /\ \E d \in Delays :
         /\ now' = now + d
         /\ Spend(d)
         /\ \/ /\ typed' = 3
               /\ err' = err
               /\ IF FillsBeforePolling(variant)
                  THEN /\ lpc' = "pollWait"
                       /\ startTime' = now'
                  ELSE /\ lpc' = "inject"
                       /\ UNCHANGED startTime
            \/ /\ \E k \in 1..3 : typed' = k - 1
               /\ \E t \in FreeTexts : Throw(Error("BrowserError", t))
               /\ UNCHANGED startTime
    /\ UNCHANGED <<conc, variant, scenario, hv, bv, sitekey, selectorsTried, taskId, createCalls,
                   createErrorId, scan, captchaStartTime,
                   i, poll, token, dv, kv, result>>

PollIntervalDoubled(v) == 2 * interval

\* the sleep at the head of each iteration of getTaskResult
PollInterval(v) == IF v \in WallClockVariants THEN interval ELSE legacyInterval
PollAttemptsInclusive(v) ==
    IF v \in WallClockVariants THEN maxAttempts + 1 ELSE legacyAttempts + 1

\* the bound of the for loop of getTaskResult
PollAttempts(v) == IF v \in WallClockVariants THEN maxAttempts ELSE legacyAttempts

BudgetNeverChecked(v, elapsed) == FALSE

\* if (elapsed > maxWaitTime) before a status request
BudgetExceeded(v, elapsed) == v \in WallClockVariants /\ elapsed > maxWaitTime

\* getTaskResult: the sleep, the budget check and the sending of a status request
PollWait ==
    /\ lpc = "pollWait"
    /\ now' = now + PollInterval(variant)
    /\ LET elapsed == now' - startTime IN
       IF BudgetExceeded(variant, elapsed)
       THEN /\ Throw(Error("CaptchaTimeoutError", MsgTimeoutWall(elapsed)))
            /\ poll' = [poll EXCEPT !.outcome = "timeout"]
       ELSE /\ lpc' = "pollResp"
            /\ err' = err
            /\ poll' = [poll EXCEPT !.requests = @ + 1,
                                    !.sentElapsed = elapsed,
                                    !.outcome = "polling",
                                    !.typedAtFirst = IF poll.requests = 0 THEN typed ELSE @]
    /\ UNCHANGED <<conc, variant, scenario, hv, bv, slowLeft, cv, startTime, i, token, dv, kv, result>>

Statuses == {"ready", "processing", "queued"}
StatusAnswers ==
    IF scenario = "solver"
    THEN {[errorId |-> 0, status |-> s, desc |-> <<>>] : s \in Statuses}
         \cup {[errorId |-> 1, status |-> "", desc |-> t] : t \in FreeTexts}
    ELSE {[errorId |-> 0, status |-> "ready", desc |-> <<>>]}

\* what getTaskResult does with a status response
StatusOutcome(v, a) ==
    IF v \in WallClockVariants
    THEN IF a.errorId # 0 THEN "rejected"
         ELSE IF a.status = "ready" THEN "ready"
         ELSE IF a.status = "processing" THEN "continue"
         ELSE "unexpected"
    ELSE IF a.status = "ready" THEN "ready" ELSE "continue"

\* getTaskResult from a status response to the next sleep, its return or its throw
PollResponse ==
    /\ lpc = "pollResp"
    /\ \E d \in Delays :
         /\ now' = now + d
         /\ Spend(d)
         /\ \/ \E a \in StatusAnswers :
                 LET o == StatusOutcome(variant, a)
                     elapsed == now' - startTime
                     p == [poll EXCEPT
                             !.answers = @ + 1,
                             !.allProcessing = @ /\ a.errorId = 0 /\ a.status = "processing",
                             !.unknownAt = IF @ = 0 /\ a.errorId = 0
                                              /\ a.status \notin {"ready", "processing"}
                                           THEN poll.requests ELSE @]
                 IN
                 CASE o = "rejected" ->
                        /\ Throw(Error("SolverRejectedError", MsgGetResult(a.desc)))
                        /\ poll' = [p EXCEPT !.outcome = "rejected"]
                        /\ UNCHANGED <<i, token>>
                   [] o = "unexpected" ->
                        /\ Throw(Error("UnexpectedStatusError", MsgUnexpected(a.status)))
                        /\ poll' = [p EXCEPT !.outcome = "unexpected"]
                        /\ UNCHANGED <<i, token>>
                   [] o = "ready" ->
                        /\ token' = "tok"
                        /\ poll' = [p EXCEPT !.returnedElapsed = elapsed,
                                             !.outcome = "returned"]
                        /\ lpc' = IF FillsBeforePolling(variant) THEN "inject" ELSE "fill"
                        /\ err' = err
                        /\ UNCHANGED i
                   [] o = "continue" ->
                        /\ i' = i + 1
                        /\ UNCHANGED token
                        /\ IF i + 1 < PollAttempts(variant)
                           THEN /\ lpc' = "pollWait"
                                /\ err' = err
                                /\ poll' = p
                           ELSE /\ poll' = [p EXCEPT !.outcome = "timeout"]
                                /\ Throw(Error("CaptchaTimeoutError",
                                            IF variant \in WallClockVariants
                                            THEN MsgTimeoutAttempts(maxAttempts, elapsed)
                                            ELSE MsgTimeoutLegacy))
            \/ /\ \E t \in FreeTexts : Throw(Error("FetchError", t))
               /\ poll' = [poll EXCEPT !.outcome = "fetchError"]
               /\ UNCHANGED <<i, token>>
    /\ UNCHANGED <<conc, variant, scenario, hv, bv, cv, startTime, dv, kv, result>>


(* ---- login: token injection and verification ---- *)
\* the variants that inject through a guarded script and read the fields back
VerifyingVariants == {"main", "ui"}

MsgEvaluate == <<"Evaluation", "failed:", "TypeError:", "Cannot", "set", "properties", "of", "null">>

\* the page after the injection script wrote the token
InjectedDom(v, d, t) ==
    [textarea |-> IF d.textarea # "absent" THEN t ELSE d.textarea,
     field |-> IF v = "main" /\ d.field # "absent" THEN t ELSE d.field]

\* the injection found what the variant requires
InjectionAccepted(v, d) ==
    IF v = "main" THEN d.textarea # "absent" /\ d.field # "absent"
    ELSE d.textarea # "absent"

InjectSettle(v) == IF v = "main" THEN injectSettle ELSE uiInjectSettle

\* page.evaluate injecting the token, the checks of login on its result, the settle delay
InjectToken ==
    /\ lpc = "inject"
    /\ \E d \in Delays :
         /\ Spend(d)
         /\ \/ /\ IF variant \in VerifyingVariants
                  THEN IF InjectionAccepted(variant, dom)
                       THEN /\ dom' = InjectedDom(variant, dom, token)
                            /\ lpc' = "verify"
                            /\ err' = err
                       ELSE /\ dom' = InjectedDom(variant, dom, token)
                            /\ Throw(Error("CaptchaInjectionError",
                                           IF variant = "main" THEN MsgInjectFields
                                           ELSE MsgInjectUi))
                  ELSE IF dom.textarea # "absent"
                       THEN /\ dom' = InjectedDom(variant, dom, token)
                            /\ lpc' = "submit"
                            /\ err' = err
                       ELSE /\ dom' = dom
                            /\ Throw(Error("CaptchaInjectionError", MsgEvaluate))
            \/ \* the script itself raised inside the page
               /\ variant \in VerifyingVariants
               /\ dom' = dom
               /\ IF variant = "main"
                  THEN \E t \in FreeTexts :
                         Throw(Error("CaptchaInjectionError", MsgInjectError(t)))
                  ELSE Throw(Error("CaptchaInjectionError", MsgInjectUi))
            \/ \* page.evaluate rejected
               /\ dom' = dom
               /\ \E t \in FreeTexts : Throw(Error("BrowserError", t))
         /\ now' = now + d + (IF lpc' = "verify" THEN InjectSettle(variant) ELSE 0)
    /\ UNCHANGED <<conc, variant, scenario, hv, bv, cv, pv, submitted, probe, kv, result>>

\* what the page may have done to a captcha field during the settle delay
FieldAfter(x) ==
    IF x = "absent" \/ scenario # "page" THEN {x} ELSE {x, "", "other"}

\* the read-back accepts the page
VerifyAccepted(v, d) ==
    LET hasToken == d.textarea \notin {"absent", ""}
        captchaFieldSet == d.field \notin {"absent", ""}
    IN IF v = "main" THEN hasToken /\ captchaFieldSet ELSE hasToken

\* page.evaluate reading the fields back, and the check of login on its result
VerifyToken ==
    /\ lpc = "verify"
    /\ \/ \E a \in FieldAfter(dom.textarea), b \in FieldAfter(dom.field) :
            /\ dom' = [textarea |-> a, field |-> b]
            /\ IF VerifyAccepted(variant, dom')
               THEN /\ lpc' = "submit"
                    /\ err' = err
               ELSE Throw(Error("CaptchaInjectionError",
                                IF variant = "main" THEN MsgVerify ELSE MsgVerifyUi))
       \/ /\ dom' = dom
          /\ \E t \in FreeTexts : Throw(Error("BrowserError", t))
    /\ UNCHANGED <<conc, variant, scenario, hv, bv, tv, cv, pv, submitted, probe, kv, result>>

(* ---- login: form submission ---- *)
LoginStatuses == {200, 302, 401, 500}
AnyStatusOk(status) == TRUE

\* response.ok
LoginOk(status) == status \in 200..299

PostSettle(v) ==
    IF v = "main" THEN postLoginSettle
    ELSE IF v = "serverless" THEN 0 ELSE uiPostLoginSettle

\* main: the in-page POST of the form, the checks on its response, the settle delay
SubmitDirect ==
    /\ lpc = "submit"
    /\ variant = "main"
    /\ \E d \in Delays :
         /\ Spend(d)
         /\ \/ \E st \in LoginStatuses :
                 /\ submitted' = [done |-> TRUE, at |-> now, strategy |-> "direct", nav |-> "none",
                                   status |-> st, error |-> FALSE]
                 /\ IF LoginOk(st)
                    THEN /\ now' = now + d + PostSettle(variant)
                         /\ lpc' = "probe"
                         /\ err' = err
                    ELSE /\ now' = now + d
                         /\ Throw(Error(IF st = 401 THEN "CredentialError"
                                        ELSE "LoginRejectedError", MsgLoginStatus(st)))
            \/ /\ now' = now + d
               /\ submitted' = [submitted EXCEPT !.error = TRUE]
               /\ \E t \in FreeTexts : Throw(Error("LoginRequestError", MsgLoginRequest(t)))
            \/ /\ now' = now + d
               /\ UNCHANGED submitted
               /\ \E t \in FreeTexts : Throw(Error("BrowserError", t))
    /\ UNCHANGED <<conc, variant, scenario, hv, bv, cv, pv, dom, probe, kv, result>>

\* the other variants: page.click on the submit button
SubmitClick ==
    /\ lpc = "submit"
    /\ variant # "main"
    /\ \E d \in Delays :
         /\ Spend(d)
         /\ now' = now + d
         /\ \/ /\ submitted' = [done |-> TRUE, at |-> now, strategy |-> "click", nav |-> "none",
                                status |-> 0, error |-> FALSE]
               /\ lpc' = "navWait"
               /\ err' = err
            \/ /\ UNCHANGED submitted
               /\ \E t \in FreeTexts : Throw(Error("BrowserError", t))
    /\ UNCHANGED <<conc, variant, scenario, hv, bv, cv, pv, dom, probe, kv, result>>

MsgNavTimeout == <<"Navigation", "timeout", "of", "15000", "ms", "exceeded">>

\* the wait for navigation is inside a try block
NavigationWaitGuarded(v) == v \in {"ui", "legacy"}

\* await navigationPromise, and the settle delay
NavigationWait ==
    /\ lpc = "navWait"
    /\ \E navigated \in BOOLEAN :
         /\ submitted' = [submitted EXCEPT !.nav = IF navigated THEN "ok" ELSE "failed"]
         /\ IF navigated \/ NavigationWaitGuarded(variant)
            THEN /\ now' = now + PostSettle(variant)
                 /\ lpc' = "probe"
                 /\ err' = err
            ELSE /\ now' = now
                 /\ Throw(Error("NavigationError", MsgNavTimeout))
    /\ UNCHANGED <<conc, variant, scenario, hv, bv, slowLeft, cv, pv, dom, probe, kv, result>>

(* ---- login: the second-factor probe ---- *)
\* what the in-page probe request may meet
ProbeOutcomes ==
    IF scenario = "page" THEN {"enabled", "disabled", "notOk", "threw"}
    ELSE {"enabled", "disabled"}

\* the value of twofa for an outcome of the in-page probe
TwoFactorPositiveOrFailed(o) == o # "disabled"

TwoFactorEnabled(o) == o = "enabled"

HarvestsAnyway(twofa) == FALSE

\* if (twofa) throw: with a positive probe the harvest is not reached
SkipsHarvest(twofa) == twofa

\* the probe, the check of login on its result, and the page-state logging
TwoFactorProbe ==
    /\ lpc = "probe"
    /\ \/ \E o \in ProbeOutcomes :
            LET twofa == TwoFactorEnabled(o) IN
            /\ probe' = [asked |-> TRUE, enabled |-> twofa, outcome |-> o]
            /\ IF SkipsHarvest(twofa)
               THEN Throw(Error("TwoFactorRequiredError", MsgTwoFA))
               ELSE /\ lpc' = IF variant = "serverless" THEN "harvest" ELSE "pageState"
                    /\ err' = err
       \/ /\ \E t \in FreeTexts : Throw(Error("BrowserError", t))
          /\ UNCHANGED probe
    /\ UNCHANGED <<conc, variant, scenario, hv, bv, tv, cv, pv, dom, submitted, kv, result>>

\* the page-state evaluate; the screenshot that follows is inside a try block
DebugPageState ==
    /\ lpc = "pageState"
    /\ \/ /\ lpc' = "harvest"
          /\ err' = err
       \/ \E t \in FreeTexts : Throw(Error("BrowserError", t))
    /\ UNCHANGED <<conc, variant, scenario, hv, bv, tv, cv, pv, dv, kv, result>>


(* ---- login: the cookie harvest ---- *)
Cookie(n, d, v) == [name |-> n, domain |-> d, value |-> v]

\* the cookies the browser may hold, in the order it lists them
CookieSlots ==
    << <<cookiePick[1], "lb.washassist.com">>,
       <<cookiePick[2], "lb.washassist.com">>,
       <<cookiePick[3], "lb.washassist.com">>,
       <<cookiePick[3], "washassist.com">>,
       <<"_ga", "lb.washassist.com">> >>

RECURSIVE ListOf(_, _, _)
ListOf(slots, v, k) ==
    IF k > Len(CookieSlots) THEN <<>>
    ELSE (IF k \in slots THEN <<Cookie(CookieSlots[k][1], CookieSlots[k][2], v)>> ELSE <<>>)
         \o ListOf(slots, v, k + 1)

CookieValues == {"v1", "v2"}
AllSlots == 1..Len(CookieSlots)

\* what page.cookies() may answer
RawVaried == [v \in CookieValues |-> { ListOf(sl, v, 1) : sl \in SUBSET AllSlots }]
RawReadings ==
    IF scenario = "cookies"
    THEN IF variant = "main" THEN RawVaried["v1"] ELSE UNION { RawVaried[v] : v \in CookieValues }
    ELSE { ListOf(AllSlots, "v1", 1) }

\* what the two page.cookies(url) calls may answer together
\* (ok = FALSE: one of them rejected)
AdditionalVaried ==
    { [ok |-> TRUE, cookies |-> ListOf(sl, "v2", 1)] : sl \in {{}, {1, 4}} }
    \cup { [ok |-> FALSE, cookies |-> <<>>] }
AdditionalReadings ==
    IF scenario = "cookies" THEN AdditionalVaried
    ELSE { [ok |-> TRUE, cookies |-> ListOf({4}, "v1", 1)] }

SeqToSet(s) == { s[k] : k \in 1..Len(s) }
Names(cs) == [k \in 1..Len(cs) |-> cs[k].name]

\* allCookies.filter(... findIndex(same name and domain) === index)
RECURSIVE UniqueCookies(_, _)
UniqueCookies(cs, k) ==
    IF k > Len(cs) THEN <<>>
    ELSE (IF \E j \in 1..(k - 1) : cs[j].name = cs[k].name /\ cs[j].domain = cs[k].domain
          THEN <<>> ELSE <<cs[k]>>)
         \o UniqueCookies(cs, k + 1)

InCookiePick(c) == c.name \in SeqToSet(cookiePick)

\* the cookies of one loop iteration, before the filter on cookiePick
Observation(v, raw, additional) ==
    IF v = "main" THEN UniqueCookies(raw \o additional, 1) ELSE raw

NotFound(found, name) == name \notin SeqToSet(found)

\* cookiePick.filter(name => !foundCookieNames.includes(name))
MissingCookies(filtered) ==
    LET found == Names(filtered)
        missing(name) == NotFound(found, name)
    IN SelectSeq(cookiePick, missing)

\* filteredCookies.map(c => `${c.name}=${c.value}`).join('; ')
CookieJar(filtered) == [k \in 1..Len(filtered) |-> <<filtered[k].name, filtered[k].value>>]

AnyReadingSuffices(v, filtered) == TRUE

\* the harvest accepts the reading of this iteration
ReadingAccepted(v, filtered) ==
    v \notin HarvestLoopVariants \/ MissingCookies(filtered) = <<>>

\* one iteration of the harvest loop; on an accepted reading, the result of login
HarvestCookies ==
    /\ lpc = "harvest"
    /\ \/ \E raw \in RawReadings, additional \in AdditionalReadings :
            LET observed == Observation(variant, raw, additional.cookies)
                filtered == SelectSeq(observed, InCookiePick)
                missing == MissingCookies(filtered)
                present == { c.name : c \in SeqToSet(raw) \cup
                                 (IF variant = "main" THEN SeqToSet(additional.cookies)
                                  ELSE {}) }
                h == [harvest EXCEPT !.reads = @ + 1,
                                     !.seen = @ \cup (present \cap SeqToSet(cookiePick)),
                                     !.complete = @ \/ SeqToSet(cookiePick) \subseteq present]
            IN
            /\ variant = "main" \/ additional = CHOOSE a \in AdditionalReadings : TRUE
            /\ filteredCookies' = filtered
            /\ IF ReadingAccepted(variant, filtered)
               THEN /\ result' = [cookies |-> <<CookieJar(filtered)>>,
                                  expires |-> now + expiryOffset]
                    /\ lpc' = "finally"
                    /\ harvest' = [h EXCEPT !.outcome = "accepted"]
                    /\ UNCHANGED <<err, attempt, now>>
               ELSE IF attempt = maxRetries - 1
               THEN /\ Throw(Error("MissingCookiesError", MsgMissing(missing)))
                    /\ harvest' = [h EXCEPT !.outcome = "gaveUp"]
                    /\ UNCHANGED <<result, attempt, now>>
               ELSE /\ now' = now + retryInterval
                    /\ attempt' = attempt + 1
                    /\ harvest' = [h EXCEPT !.waits = @ + 1]
                    /\ UNCHANGED <<lpc, err, result>>
       \/ /\ \E t \in FreeTexts : Throw(Error("BrowserError", t))
          /\ harvest' = [harvest EXCEPT !.reads = @ + 1, !.outcome = "failed"]
          /\ UNCHANGED <<result, attempt, now, filteredCookies>>
    /\ UNCHANGED <<conc, variant, scenario, hv, bv, slowLeft, cv, pv, dv>>

(* ---- the system ---- *)
Next ==
    \/ SessionHandler
    \/ SessionReply
    \/ SessionAsyncHandler
    \/ ProcessAuthAsyncStart
    \/ ProcessAuthAsyncDeliver
    \/ Launch
    \/ NewPage
    \/ Goto
    \/ ExtractSitekey
    \/ CreateTask
    \/ FillForm
    \/ PollWait
    \/ PollResponse
    \/ InjectToken
    \/ VerifyToken
    \/ SubmitDirect
    \/ SubmitClick
    \/ NavigationWait
    \/ TwoFactorProbe
    \/ DebugPageState
    \/ HarvestCookies
    \/ Finally

Spec == Init /\ [][Next]_vars

(* ---- external calls that never settle ---- *)
\* fetch is called without a signal or a timeout: a solver that accepts the
\* request and never completes its answer leaves createTask or getTaskResult
\* awaiting
SolverNeverAnswers ==
    /\ lpc \in {"createTask", "pollResp"}
    /\ lpc' = "blocked"
    /\ UNCHANGED <<conc, variant, scenario, hv, bv, tv, cv, pv, dv, kv, rv>>

\* the same for the fetch of callWebhook
WebhookNeverAnswers ==
    /\ hpc = "task"
    /\ lpc = "done"
    /\ hpc' = "blocked"
    /\ UNCHANGED <<conc, variant, scenario, req, replies, webhooks, taskRaised, lpc, bv, tv,
                   cv, pv, dv, kv, rv>>

NextLive ==
    \/ Next
    \/ SolverNeverAnswers
    \/ WebhookNeverAnswers

\* the event loop runs a continuation as soon as its await has settled
SpecLive == Init /\ [][NextLive]_vars /\ WF_vars(NextLive)

(* ---- several requests in flight ---- *)
\* Each request is reduced to the steps that touch a browser: the launch, the
\* work on the page up to the submission, the harvest, the finally block and
\* the delivery of the terminal result.  A browser remembers whose
\* credentials were submitted in it; the harvest reads that session.
Flows == {"sync", "async"}

\* the browser a call of login refers to: `let browser' is a local of the call
Handle(a) == handles[a]

NewBrowser(a) == [owner |-> a, state |-> "open", users |-> {}, closers |-> {}, session |-> 0]

Fail(a, why) ==
    inflight' = [inflight EXCEPT ![a].failure = why, ![a].pc = "finally"]

\* a request arrives and login is called (directly, or from processAuthAsync)
Arrive(a) ==
    /\ inflight[a].pc = "absent"
    /\ \E f \in Flows : inflight' = [inflight EXCEPT ![a].flow = f, ![a].pc = "launch"]
    /\ UNCHANGED <<single, handles, pool, tlsReject>>

\* browser = await browserService.launch()
LaunchOwn(a) ==
    /\ inflight[a].pc = "launch"
    /\ \/ /\ pool' = Append(pool, NewBrowser(a))
          /\ handles' = [handles EXCEPT ![a] = Len(pool) + 1]
          /\ inflight' = [inflight EXCEPT ![a].pc = "page"]
       \/ /\ Fail(a, "launch")
          /\ UNCHANGED <<handles, pool>>
    /\ UNCHANGED <<single, tlsReject>>

\* browser.newPage(), page.goto and the site-key extraction
WorkOnPage(a) ==
    /\ inflight[a].pc = "page"
    /\ LET h == Handle(a) IN
       /\ pool' = [pool EXCEPT ![h].users = @ \cup {a}]
       /\ IF pool[h].state = "closed"
          THEN Fail(a, "targetClosed")
          ELSE \/ inflight' = [inflight EXCEPT ![a].pc = "solve"]
               \/ Fail(a, "page")
    /\ UNCHANGED <<single, handles, tlsReject>>

\* the certificate the solver's host presents to fetch
Certificates == {"valid", "invalid"}

\* the TLS handshake of fetch fails
HandshakeFails(cert, reject) == cert = "invalid" /\ reject

\* createTask and getTaskResult: fetch to the solver over TLS
SolveOwn(a) ==
    /\ inflight[a].pc = "solve"
    /\ \E c \in Certificates :
         inflight' = [inflight EXCEPT
                        ![a].cert = c,
                        ![a].failure = IF HandshakeFails(c, tlsReject) THEN "fetch" ELSE @,
                        ![a].pc = IF HandshakeFails(c, tlsReject) THEN "finally" ELSE "submit"]
    /\ UNCHANGED <<single, handles, pool, tlsReject>>

\* the injection of the token and the submission of the credentials
SubmitOwn(a) ==
    /\ inflight[a].pc = "submit"
    /\ LET h == Handle(a) IN
       IF pool[h].state = "closed"
       THEN /\ Fail(a, "targetClosed")
            /\ pool' = [pool EXCEPT ![h].users = @ \cup {a}]
       ELSE /\ pool' = [pool EXCEPT ![h].users = @ \cup {a}, ![h].session = a]
            /\ inflight' = [inflight EXCEPT ![a].pc = "harvest"]
    /\ UNCHANGED <<single, handles, tlsReject>>

\* page.cookies() and the composition of the result
HarvestOwn(a) ==
    /\ inflight[a].pc = "harvest"
    /\ LET h == Handle(a) IN
       /\ pool' = [pool EXCEPT ![h].users = @ \cup {a}]
       /\ IF pool[h].state = "closed"
          THEN Fail(a, "targetClosed")
          ELSE \/ inflight' = [inflight EXCEPT ![a].session = pool[h].session,
                                                ![a].pc = "finally"]
               \/ Fail(a, "harvest")
    /\ UNCHANGED <<single, handles, tlsReject>>

\* finally { if (browser) await browser.close() }
CloseOwn(a) ==
    /\ inflight[a].pc = "finally"
    /\ LET h == Handle(a) IN
       IF h # 0
       THEN /\ pool' = [pool EXCEPT ![h].state = "closed", ![h].closers = @ \cup {a}]
            /\ \E o \in CloseOutcomes :
                 inflight' = [inflight EXCEPT
                                ![a].pc = "deliver",
                                ![a].failure = IF o.ok THEN @ ELSE "close",
                                ![a].session = IF o.ok THEN @ ELSE 0]
       ELSE /\ pool' = pool
            /\ inflight' = [inflight EXCEPT ![a].pc = "deliver"]
    /\ UNCHANGED <<single, handles, tlsReject>>

\* reply.send(result), or callWebhook(webhook_url, payload), which first sets
\* process.env["NODE_TLS_REJECT_UNAUTHORIZED"] = 0
DeliverOwn(a) ==
    /\ inflight[a].pc = "deliver"
    /\ inflight' = [inflight EXCEPT
                      ![a].pc = "end",
                      ![a].out = [request |-> a,
                                  success |-> inflight[a].failure = "none",
                                  session |-> IF inflight[a].failure = "none"
                                              THEN inflight[a].session ELSE 0]]
    /\ tlsReject' = (tlsReject /\ inflight[a].flow # "async")
    /\ UNCHANGED <<single, handles, pool>>

InitConcurrent ==
    /\ Init
    /\ variant = "main"
    /\ scenario = "page"
    /\ req.endpoint = "session" /\ req.hasBody /\ ~MissingFields(req)

NextConcurrent ==
    \E a \in InFlight :
        \/ Arrive(a)
        \/ LaunchOwn(a)
        \/ WorkOnPage(a)
        \/ SolveOwn(a)
        \/ SubmitOwn(a)
        \/ HarvestOwn(a)
        \/ CloseOwn(a)
        \/ DeliverOwn(a)

SpecConcurrent == InitConcurrent /\ [][NextConcurrent]_vars


(* ---- the claims ---- *)
LoginOver == lpc = "done"
RequestOver == hpc = "end"
Accepted == replies # <<>> /\ replies[1].status = 202
RequiredNames == SeqToSet(cookiePick)

\* C1: every invocation of login closes the browser it launched exactly once,
\* on every exit path: no close before login ends its try block, one close
\* once login is over, never a second one, and none without a launch.
C1_ClosedExactlyOnce ==
    /\ closes <= launches
    /\ launches <= 1
    /\ (LoginOver => closes = launches)
    /\ (~LoginOver => closes = 0)
    /\ (launches = 1 <=> browser # "none")

\* C1 witness: an attempt that failed in the cookie harvest is over and its
\* browser was closed once.
C1_Witness ==
    /\ LoginOver
    /\ harvest.outcome = "gaveUp"
    /\ launches = 1
    /\ closes = 1

\* C2: in the variants with the harvest loop, the harvest accepts if and only
\* if one single observation held every required name; when it gives up it
\* raises MissingCookiesError, also when the names seen over all observations
\* together cover the required names.
C2_SingleObservation ==
    variant \in HarvestLoopVariants =>
        /\ (harvest.outcome = "accepted" <=> harvest.complete)
        /\ (harvest.outcome = "accepted" => RequiredNames \subseteq SeqToSet(Names(filteredCookies)))
        /\ (harvest.outcome = "gaveUp" /\ lpc = "finally" =>
                err.kind = "MissingCookiesError" /\ result = NoResult)
        /\ (harvest.seen = RequiredNames /\ ~harvest.complete /\ harvest.reads = maxRetries =>
                harvest.outcome \in {"gaveUp", "failed"})

\* C2 witness: every required name was seen in some reading, no reading held
\* them all, and the harvest gave up.
C2_Witness ==
    /\ variant \in HarvestLoopVariants
    /\ harvest.seen = RequiredNames
    /\ ~harvest.complete
    /\ harvest.outcome = "gaveUp"

\* C3: getTaskResult never returns a token later than maxWaitTime after its
\* start.
C3_NoTokenAfterBudget ==
    variant \in WallClockVariants /\ poll.outcome = "returned" =>
        poll.returnedElapsed <= maxWaitTime

\* C4: once the second-factor probe reported enabled, no cookie observation
\* is made and login is over only with the 2FA error.
C4_ProbeShortCircuits ==
    probe.enabled =>
        /\ harvest.reads = 0
        /\ lpc \in {"finally", "done"}
        /\ err.kind = "TwoFactorRequiredError"

\* C5: no exception escapes callWebhook, hence none escapes processAuthAsync,
\* whatever the outcome of login and of the delivery.
C5_NothingEscapesTheTask ==
    /\ ~taskRaised
    /\ (hpc = "task" => Accepted)
    /\ (webhooks # <<>> => RequestOver)

\* C5 witness: the task ended after a delivery that failed.
C5_Witness ==
    /\ RequestOver
    /\ webhooks # <<>>
    /\ webhooks[1].outcome = "networkError"
    /\ webhooks[1].payload.success

\* C6: a request gets exactly one terminal result: a POST /session request one
\* response and no webhook, an accepted POST /session-async request one
\* webhook delivery, carrying the outcome of login.
C6_OneTerminalResult ==
    /\ Len(replies) <= 1
    /\ Len(webhooks) <= 1
    /\ (RequestOver => Len(replies) = 1)
    /\ (req.endpoint = "session" => webhooks = <<>>)
    /\ (~Accepted => webhooks = <<>>)
    /\ (RequestOver /\ Accepted =>
            /\ Len(webhooks) = 1
            /\ webhooks[1].payload.success = (err.kind = "none")
            /\ webhooks[1].payload.request_id = req.request_id)
    /\ (~RequestOver => webhooks = <<>>)

\* C6 witness: an asynchronous request whose login failed at the injection is
\* over with one failure webhook.
C6_Witness ==
    /\ RequestOver
    /\ Accepted
    /\ err.kind = "CaptchaInjectionError"
    /\ Len(webhooks) = 1
    /\ ~webhooks[1].payload.success

\* C7: the form is submitted strictly before the token's validity deadline,
\* counted from the submission of the challenge, and the polling budget ends
\* before that deadline.
C7_TokenUsedBeforeDeadline ==
    variant = "main" /\ submitted.done =>
        /\ submitted.at < captchaStartTime + tokenValidity
        /\ startTime + maxWaitTime < captchaStartTime + tokenValidity

C9_UnknownStatusIsFatal ==
    poll.unknownAt > 0 =>
        /\ poll.requests = poll.unknownAt
        /\ poll.outcome = "unexpected"

\* C10: a ChallengeNotFoundError, a CaptchaInjectionError, a BrowserError and
\* a solver rejection are answered 500 by POST /session, whatever their text.
C10_StatusByKindOnly ==
    RequestOver /\ req.endpoint = "session"
        /\ err.kind \in {"ChallengeNotFoundError", "CaptchaInjectionError",
                         "BrowserError", "SolverRejectedError"} =>
        replies[1].status = 500

\* C11: when polling is exhausted (attempt count or wall-clock budget) or the
\* 'ready' answer comes only after the budget, POST /session answers 428 with
\* the body 'Captcha solver timed out'.
C11_TimeoutAnswers428 ==
    RequestOver /\ req.endpoint = "session" /\ variant = "main"
        /\ (\/ poll.outcome = "timeout"
            \/ poll.outcome = "returned" /\ poll.returnedElapsed > maxWaitTime) =>
        replies[1] = Reply(428, <<"Captcha", "solver", "timed", "out">>, NoResult)

\* C12: when the second-factor probe reported enabled, POST /session answers
\* 428 with the second-factor message, the asynchronous flow delivers one
\* failure webhook with the request id and an error, and no success result
\* is produced in either flow.
C12_TwoFactorAnswered ==
    RequestOver /\ probe.enabled =>
        /\ result = NoResult
        /\ (req.endpoint = "session" => replies[1] = Reply(428, MsgTwoFA, NoResult))
        /\ (Accepted =>
                /\ Len(webhooks) = 1
                /\ ~webhooks[1].payload.success
                /\ webhooks[1].payload.request_id = req.request_id
                /\ Includes(webhooks[1].payload.error, <<"2FA", "enabled">>))

\* C13: when the harvest gave up with a required cookie missing, POST /session
\* answers 500 with the body 'Authentication cookies not received - login may
\* have failed', and no result is returned.
C13_MissingCookiesAnswered ==
    RequestOver /\ req.endpoint = "session" /\ variant = "main"
        /\ harvest.outcome = "gaveUp" =>
        /\ result = NoResult
        /\ replies[1] = Reply(500, <<"Authentication", "cookies", "not", "received", "-",
                                     "login", "may", "have", "failed">>, NoResult)

\* C14: a POST /session request (with a body) is answered 400 exactly when a
\* required field is missing or the target rejected the credentials; a
\* credential rejection is never answered 200 or 428.
C14_BadRequestExactly ==
    RequestOver /\ req.endpoint = "session" /\ variant = "main" /\ req.hasBody =>
        /\ (replies[1].status = 400 <=>
                MissingFields(req) \/ err.kind = "CredentialError")
        /\ (err.kind = "CredentialError" => replies[1].status \notin {200, 428})

\* C15: a POST /session request with user, pass or code missing or empty, or
\* with no body at all, is answered 400 'Missing required fields: user, pass,
\* code', and neither a browser launch nor a solver call is made for it.
C15_MissingFieldsRejected ==
    req.endpoint = "session" /\ req.method = "POST"
        /\ (~req.hasBody \/ MissingFields(req)) =>
        /\ launches = 0
        /\ lpc = "idle"
        /\ createCalls = 0
        /\ poll.requests = 0
        /\ (RequestOver => replies[1] = Reply(400, MsgMissingSync, NoResult))

ValidAsync ==
    /\ req.endpoint = "session-async"
    /\ req.hasBody
    /\ req.request_id # ""
    /\ ~MissingFields(req)
    /\ ParsableUrl(req.webhook_url)

\* C16: a valid POST /session-async request is acknowledged with 202
\* {success: true, request_id} before the login workflow starts; the
\* acknowledgment is the same whatever the workflow does, and a webhook is
\* delivered only after it.
C16_AcknowledgedFirst ==
    /\ (ValidAsync /\ hpc # "recv" => Accepted)
    /\ (req.endpoint = "session-async" /\ (hpc = "task" \/ lpc # "idle") => Accepted)
    /\ (webhooks # <<>> => Accepted)
    /\ (Accepted => replies = <<Reply(202, <<>>, Ack(req))>>)

\* C16 witness: the request was acknowledged, the workflow then failed and
\* its failure webhook was delivered.
C16_Witness ==
    /\ Accepted
    /\ RequestOver
    /\ err.kind = "TwoFactorRequiredError"
    /\ Len(webhooks) = 1
    /\ replies[1].body.success

\* C17: the two flows report the same login outcome alike: on success the
\* webhook payload carries the cookies and expires of the synchronous success
\* body, with the request id and success: true; on failure it carries
\* success: false, the error, and no cookies.
C17_FlowsAgree ==
    /\ (RequestOver /\ req.endpoint = "session" /\ LoginOver /\ err.kind = "none" =>
            /\ replies[1].status = 200
            /\ replies[1].body = [cookies |-> result.cookies, expires |-> result.expires])
    /\ (RequestOver /\ Accepted /\ err.kind = "none" =>
            /\ webhooks # <<>>
            /\ webhooks[1].payload.success
            /\ webhooks[1].payload.request_id = req.request_id
            /\ webhooks[1].payload.cookies = SuccessBody(result).cookies
            /\ webhooks[1].payload.expires = SuccessBody(result).expires
            /\ webhooks[1].payload.error = <<>>)
    /\ (RequestOver /\ Accepted /\ err.kind # "none" =>
            /\ webhooks # <<>>
            /\ ~webhooks[1].payload.success
            /\ webhooks[1].payload.request_id = req.request_id
            /\ webhooks[1].payload.error = <<"Authentication", "failed:">> \o err.message
            /\ webhooks[1].payload.cookies = <<>>
            /\ webhooks[1].payload.expires = -1)

\* C17 witness: an asynchronous request whose login succeeded is over and its
\* webhook carries a cookie jar and an expiry.
C17_Witness ==
    /\ RequestOver
    /\ Accepted
    /\ err.kind = "none"
    /\ webhooks # <<>>
    /\ webhooks[1].payload.cookies # <<>>
    /\ webhooks[1].payload.expires > 0

\* C18: the three credential fields are typed before the wait for the token
\* begins: when the first status request is sent the form is filled, and a
\* polling that ended without a token leaves a filled form behind.
C18_FillNotGatedOnToken ==
    /\ (poll.requests > 0 => poll.typedAtFirst = 3)
    /\ (poll.outcome \in {"timeout", "rejected", "unexpected", "fetchError"} => typed = 3)

SelectorLoopVariants == {"main", "ui"}

\* C19: with the selector loop, the site key is the key of the first selector,
\* in the order of captchaSelectors, whose element carries a non-empty key;
\* the selectors after it are not evaluated, those before it were all
\* evaluated, and when no selector yields a key the solver is never called.
C19_FirstMatchWins ==
    variant \in SelectorLoopVariants /\ scan.done =>
        /\ captchaSelectors = <<"#desktop-captcha", ".g-recaptcha", "[data-sitekey]">>
        /\ sitekey = scan.key
        /\ (scan.first > 0 => selectorsTried = scan.first)
        /\ (scan.first = 0 =>
                /\ selectorsTried = Len(captchaSelectors)
                /\ err.kind = "ChallengeNotFoundError"
                /\ lpc \in {"finally", "done"}
                /\ createCalls = 0
                /\ poll.requests = 0)

\* C20: the form is submitted only when both captcha fields (the
\* g-recaptcha-response textarea and #CaptchaToken) hold the token at the
\* read-back; a failed injection or read-back ends login with
\* CaptchaInjectionError and without a submission.
C20_SubmittedOnlyVerified ==
    variant = "main" =>
        /\ (submitted.done => dom.textarea = token /\ dom.field = token /\ token # "")
        /\ (lpc = "finally" /\ err.kind = "CaptchaInjectionError" => ~submitted.done)

ClickVariants == {"ui", "legacy", "serverless"}

\* C21: with the click submission, a navigation wait that timed out or failed
\* does not end the attempt: no NavigationError is raised for it and the
\* second-factor probe is the next step, as after a wait that succeeded.
C21_NavigationWaitBestEffort ==
    variant \in ClickVariants /\ submitted.nav = "failed" =>
        /\ err.kind # "NavigationError"
        /\ (~probe.asked => lpc = "probe" \/ err.kind \in {"BrowserError", "CloseError"})

\* the required names, in the order of cookiePick, that are not in the set seen
NeverSeen(seen) ==
    LET absent(name) == name \notin seen
    IN SelectSeq(cookiePick, absent)

\* C22: when the harvest gives up, the MissingCookiesError lists exactly the
\* required names that were present in none of the observations of the attempt.
C22_NamesNeverArrived ==
    variant = "main" /\ harvest.outcome = "gaveUp" /\ lpc = "finally" =>
        /\ err.kind = "MissingCookiesError"
        /\ err.message = MsgMissing(NeverSeen(harvest.seen))

StateOrder ==
    <<"Init", "Navigated", "ChallengeExtracted", "ChallengeSolving", "TokenInjected",
      "FormSubmitted", "PostLoginCheck", "CookiesHarvested", "Done">>

\* the state of the attempt at position l of login with pending exception e
StateOf(l, e) ==
    IF l \in {"finally", "done"}
    THEN IF e.kind # "none" THEN "Failed"
         ELSE IF l = "finally" THEN "CookiesHarvested" ELSE "Done"
    ELSE CASE l \in {"idle", "launch", "newPage", "goto"} -> "Init"
           [] l = "sitekey" -> "Navigated"
           [] l = "createTask" -> "ChallengeExtracted"
           [] l \in {"fill", "pollWait", "pollResp", "inject", "verify"} -> "ChallengeSolving"
           [] l = "submit" -> "TokenInjected"
           [] l \in {"navWait", "probe"} -> "FormSubmitted"
           [] l \in {"pageState", "harvest"} -> "PostLoginCheck"

Rank(s) == CHOOSE k \in 1..Len(StateOrder) : StateOrder[k] = s

\* what an attempt in its state has behind it, and what it has not begun
Completed ==
    LET s == StateOf(lpc, err) IN
    /\ (s # "Failed" /\ s # "Init" => launches = 1 /\ (browser = "open" \/ lpc = "done"))
    /\ (s # "Failed" /\ Rank(s) >= Rank("ChallengeExtracted") => scan.done /\ sitekey = scan.key)
    /\ (s # "Failed" /\ Rank(s) >= Rank("ChallengeSolving") => createCalls = 1 /\ taskId # "")
    /\ (s # "Failed" /\ Rank(s) >= Rank("TokenInjected") =>
            token # "" /\ poll.outcome = "returned" /\ typed = 3 /\ dom.textarea # "absent")
    /\ (s # "Failed" /\ Rank(s) >= Rank("FormSubmitted") => submitted.done)
    /\ (s # "Failed" /\ Rank(s) >= Rank("PostLoginCheck") => probe.asked /\ ~probe.enabled)
    /\ (s # "Failed" /\ Rank(s) >= Rank("CookiesHarvested") =>
            harvest.outcome = "accepted" /\ result # NoResult)
    /\ (s = "Failed" => result = NoResult)
    /\ (s # "Failed" /\ Rank(s) <= Rank("ChallengeExtracted") => createCalls = 0 /\ taskId = "")
    /\ (s # "Failed" /\ Rank(s) < Rank("ChallengeSolving") => poll.requests = 0 /\ typed = 0)
    /\ (s # "Failed" /\ Rank(s) < Rank("TokenInjected") => ~submitted.done)
    /\ (s # "Failed" /\ Rank(s) < Rank("FormSubmitted") => ~probe.asked)
    /\ (s # "Failed" /\ Rank(s) < Rank("PostLoginCheck") => harvest.reads = 0)

EntriesOf(jar, n) == { k \in 1..Len(jar) : jar[k][1] = n }

\* C24: the jar of a success result holds each required name exactly once and
\* no other name.
C24_JarIsMapping ==
    variant = "main" /\ result # NoResult =>
        LET jar == result.cookies[1] IN
        /\ \A n \in RequiredNames : Cardinality(EntriesOf(jar, n)) = 1
        /\ \A k \in 1..Len(jar) : jar[k][1] \in RequiredNames

\* C25: a success result is composed only from a reading that holds every
\* required name: its jar is not empty and lacks no required cookie.
C25_SuccessHasAllCookies ==
    result # NoResult =>
        /\ harvest.outcome = "accepted"
        /\ RequiredNames \subseteq SeqToSet(Names(filteredCookies))
        /\ result.cookies[1] # <<>>
        /\ \A n \in RequiredNames : EntriesOf(result.cookies[1], n) # {}

\* C26: in every variant, the expiry of a success result is the time of its
\* composition plus 25 minutes, and its jar is not empty.
C26_ExpiryTwentyFiveMinutes ==
    result # NoResult =>
        /\ expiryOffset = 25 * 60 * 1000
        /\ result.expires = now + expiryOffset
        /\ Len(result.cookies) = 1
        /\ result.cookies[1] # <<>>

BrowsersOf(a) == { b \in 1..Len(pool) : pool[b].owner = a }

\* C27: with several requests in flight, each attempt has one browser of its
\* own, used and closed by no other attempt, and the outcome of an attempt
\* does not depend on the steps of another: it carries its own session and
\* request, and a solver host with an invalid certificate fails the attempt
\* whatever the other requests have done.
C27_AttemptsIsolated ==
    /\ \A b \in 1..Len(pool) :
          /\ pool[b].users \subseteq {pool[b].owner}
          /\ pool[b].closers \subseteq {pool[b].owner}
          /\ pool[b].session \in {0, pool[b].owner}
    /\ \A a \in InFlight :
          /\ Cardinality(BrowsersOf(a)) <= 1
          /\ (Handle(a) # 0 => BrowsersOf(a) = {Handle(a)})
          /\ inflight[a].failure # "targetClosed"
          /\ inflight[a].session \in {0, a}
          /\ (inflight[a].cert = "invalid" => inflight[a].failure \in {"fetch", "close"})
          /\ (inflight[a].pc = "end" =>
                 /\ inflight[a].out.request = a
                 /\ inflight[a].out.success = (inflight[a].failure = "none")
                 /\ (inflight[a].out.success => inflight[a].out.session = a)
                 /\ \A b \in BrowsersOf(a) : pool[b].state = "closed")

\* C28: every login attempt that was started eventually ends (Done or
\* Failed), and every asynchronous task that was started eventually finishes,
\* whatever the external parties do.
C28_EverythingTerminates ==
    /\ (lpc # "idle") ~> LoginOver
    /\ (hpc = "task") ~> RequestOver

\* C29: after a non-zero errorId in the answer to the challenge submission,
\* createTask has thrown the create-task error and bound no task id; the
\* attempt has failed: no status request was sent, no credential was typed,
\* no result exists, and once login is over the browser was closed.
C29_RejectedSubmissionEndsAttempt ==
    createErrorId > 0 =>
        /\ taskId = ""
        /\ lpc \in {"finally", "done"}
        /\ err.kind # "none"
        /\ (lpc = "finally" =>
               /\ err.kind = "SolverRejectedError"
               /\ SubSeq(err.message, 1, 4) = MsgCreateTask(<<>>))
        /\ poll = NoPoll
        /\ typed = 0
        /\ token = ""
        /\ result = NoResult
        /\ (LoginOver => closes = 1 /\ browser = "closed")

\* C29 witness: the solver rejected the submission, login is over with the
\* solver's error and its browser was closed.
C29_Witness ==
    /\ createErrorId > 0
    /\ LoginOver
    /\ err.kind = "SolverRejectedError"
    /\ createCalls = 1
    /\ closes = 1

\* the outcomes of the probe request other than an OK response
ProbeFailures == {"notOk", "threw"}

\* C30: a probe request that raised or was answered non-OK counts as 'not
\* enabled' and the attempt goes on to the harvest; the 2FA error is raised
\* only for an OK response with isEnabled set.
C30_ProbeFailsOpen ==
    /\ (probe.outcome \in ProbeFailures =>
           /\ ~probe.enabled
           /\ err.kind # "TwoFactorRequiredError"
           /\ (harvest.reads = 0 =>
                  \/ lpc \in {"pageState", "harvest"}
                  \/ err.kind \in {"BrowserError", "CloseError"}))
    /\ (err.kind = "TwoFactorRequiredError" => probe.outcome = "enabled" /\ probe.enabled)
    /\ (probe.enabled <=> probe.outcome = "enabled")

\* C30 witness: the probe request raised, the harvest was made and login
\* returned a result.
C30_Witness ==
    /\ probe.outcome = "threw"
    /\ harvest.outcome = "accepted"
    /\ LoginOver
    /\ err.kind = "none"
    /\ result # NoResult

\* C31: a POST /session-async request that lacks a field or whose
\* webhook_url does not parse is answered 400 and nothing else happens for
\* it: no workflow is scheduled, no browser launched, no webhook called.
C31_InvalidAsyncHasNoEffect ==
    req.endpoint = "session-async" /\ ~ValidAsync =>
        /\ hpc \in {"recv", "end"}
        /\ lpc = "idle"
        /\ launches = 0
        /\ createCalls = 0
        /\ webhooks = <<>>
        /\ (RequestOver => Len(replies) = 1 /\ replies[1].status = 400)

\* C32: every webhook of a request carries success: true exactly when login
\* returned a result; no two webhooks of one request disagree, and a success
\* webhook whose delivery failed is followed by no other webhook.
C32_WebhookMatchesOutcome ==
    /\ \A k \in 1..Len(webhooks) :
          /\ LoginOver
          /\ webhooks[k].payload.success = (err.kind = "none" /\ result # NoResult)
          /\ (webhooks[k].payload.success =>
                 webhooks[k].payload.cookies = result.cookies)
          /\ (~webhooks[k].payload.success => webhooks[k].payload.cookies = <<>>)
    /\ \A j, k \in 1..Len(webhooks) :
          webhooks[j].payload.success = webhooks[k].payload.success
    /\ (webhooks # <<>> /\ webhooks[1].payload.success
           /\ webhooks[1].outcome # "delivered" => Len(webhooks) = 1)

\* C32 witness: login returned a result, the success webhook was answered
\* with a non-2xx status, and the task ended with that single webhook.
C32_Witness ==
    /\ RequestOver
    /\ Len(webhooks) = 1
    /\ webhooks[1].payload.success
    /\ webhooks[1].outcome = "non2xx"
    /\ result # NoResult

\* C33: the outcome of login is the outcome of the workflow: an attempt
\* whose harvest accepted a reading returns its result, and a failure of a
\* step is the failure login ends with, whatever browser.close() does.
C33_OutcomeNotByTeardown ==
    /\ (LoginOver /\ harvest.outcome = "accepted" => err = NoError /\ result # NoResult)
    /\ err.kind # "CloseError"
    /\ (LoginOver /\ closes = 1 /\ harvest.outcome # "accepted" => err.kind # "none")

\* C34: when the launch of the browser fails, login ends with that error,
\* close() is not called, no page or solver operation is made, and
\* POST /session answers 500.
C34_LaunchFailure ==
    launches = 0 /\ lpc \in {"finally", "done"} =>
        /\ err.kind = "BrowserError"
        /\ result = NoResult
        /\ closes = 0
        /\ browser = "none"
        /\ ~scan.done
        /\ createCalls = 0
        /\ poll = NoPoll
        /\ typed = 0
        /\ ~submitted.done
        /\ ~probe.asked
        /\ harvest.reads = 0
        /\ (RequestOver /\ req.endpoint = "session" =>
               replies[1] = Reply(500, <<"Internal", "server", "error">>, NoResult))

\* C35: getTaskResult sends no status request later than maxWaitTime after
\* its start: every request, the first one included, follows a polling
\* interval and a check of the elapsed time, and the check raises the
\* Captcha timeout error once more than maxWaitTime has passed.
C35_NoRequestAfterBudget ==
    variant \in WallClockVariants =>
        /\ (poll.requests > 0 =>
               /\ poll.sentElapsed <= maxWaitTime
               /\ poll.sentElapsed >= poll.requests * interval)
        /\ (lpc = "pollResp" => now - startTime = poll.sentElapsed)
        /\ (poll.outcome = "timeout" /\ i < maxAttempts =>
               /\ now - startTime > maxWaitTime
               /\ poll.answers = poll.requests
               /\ (lpc = "finally" =>
                      /\ err.kind = "CaptchaTimeoutError"
                      /\ err.message = MsgTimeoutWall(now - startTime)))

\* C35 witness: after slow answers the check before the next request found
\* the budget exceeded and ended the polling.
C35_Witness ==
    /\ variant \in WallClockVariants
    /\ poll.outcome = "timeout"
    /\ i < maxAttempts
    /\ poll.requests >= 2
    /\ now - startTime > maxWaitTime
    /\ lpc = "finally"

\* C36: in src/index.js a credential field is typed only once createTask has
\* returned a task id, the first status request is sent only once the three
\* fields are typed, and a status request is sent only for a created task.
C36_SolveAndFillOrdered ==
    variant = "main" =>
        /\ (typed > 0 \/ lpc = "fill" => taskId # "" /\ createErrorId = 0 /\ createCalls = 1)
        /\ (lpc = "fill" => poll = NoPoll)
        /\ (poll # NoPoll \/ lpc \in {"pollWait", "pollResp"} =>
               /\ typed = 3
               /\ taskId # ""
               /\ createErrorId = 0)
        /\ (poll.requests > 0 => poll.typedAtFirst = 3)

\* C36 witness: the task was created, the three fields were typed, and the
\* status requests that followed returned the token.
C36_Witness ==
    /\ variant = "main"
    /\ taskId # ""
    /\ poll.typedAtFirst = 3
    /\ poll.requests >= 2
    /\ poll.outcome = "returned"

\* C37: the harvest loop of src/index.js ends with the first reading that holds
\* every required name, builds the jar from that reading, takes at most
\* maxRetries readings and does not wait after the last of them.
C37_HarvestStopsAtFirstComplete ==
    variant = "main" =>
        /\ harvest.reads <= maxRetries
        /\ (lpc = "harvest" =>
               /\ harvest.outcome = "none"
               /\ ~harvest.complete
               /\ attempt = harvest.reads
               /\ harvest.waits = harvest.reads
               /\ (harvest.reads > 0 => MissingCookies(filteredCookies) # <<>>))
        /\ (harvest.outcome # "none" =>
               /\ lpc \in {"finally", "done"}
               /\ harvest.waits = harvest.reads - 1)
        /\ (harvest.outcome = "accepted" =>
               /\ MissingCookies(filteredCookies) = <<>>
               /\ (lpc = "finally" =>
                      result.cookies = <<[k \in 1..Len(filteredCookies) |->
                          <<filteredCookies[k].name, filteredCookies[k].value>>]>>))
        /\ (harvest.outcome = "gaveUp" =>
               /\ harvest.reads = maxRetries
               /\ ~harvest.complete)

\* C37 witness: the reading after some incomplete ones was complete and the
\* jar was built from it.
C37_Witness ==
    /\ variant = "main"
    /\ harvest.outcome = "accepted"
    /\ harvest.reads >= 2
    /\ harvest.waits = harvest.reads - 1
    /\ lpc = "finally"
    /\ result # NoResult

\* C38: in src/index.js, once the in-page POST of the form has returned an
\* error or a status outside 200..299, login ends in failure without asking the
\* second-factor probe and without reading cookies, and has no result.
C38_RejectedLoginStopsThere ==
    variant = "main" /\ (submitted.error \/ (submitted.done /\ submitted.status \notin 200..299)) =>
        /\ lpc \in {"finally", "done"}
        /\ err.kind # "none"
        /\ (lpc = "finally" =>
               err.kind = (IF submitted.error THEN "LoginRequestError"
                           ELSE IF submitted.status = 401 THEN "CredentialError"
                           ELSE "LoginRejectedError"))
        /\ probe = NoProbe
        /\ harvest = NoHarvest
        /\ filteredCookies = <<>>
        /\ result = NoResult

\* C38 witness: the POST answered 500 and login is over.
C38_Witness ==
    /\ variant = "main"
    /\ submitted.done
    /\ submitted.status = 500
    /\ lpc = "done"
    /\ err.kind = "LoginRejectedError"
    /\ ~probe.asked
    /\ harvest.reads = 0

\* C39: with maxAttempts 20, interval 3000 and maxWaitTime 90000, a polling
\* whose answers are all 'processing' and take no time ends by the attempt
\* count, after 20 requests and 60000 ms; a polling ended by the wall-clock check
\* has spent more than 30000 ms outside its sleeps. The time outside the sleeps
\* is zero when no external answer was slow.
C39_WallClockNeedsLatency ==
    variant \in WallClockVariants /\ lpc \in {"pollWait", "pollResp", "finally"}
        /\ poll.outcome \in {"polling", "timeout"} =>
        LET elapsed == now - startTime
            sleeps == IF poll.outcome = "timeout" /\ i < maxAttempts
                      THEN poll.requests + 1 ELSE poll.requests
            latency == elapsed - sleeps * interval
        IN
        /\ latency >= 0
        /\ (slowLeft = MaxSlow => latency = 0)
        /\ (latency = 0 => elapsed <= 60000)
        /\ (poll.outcome = "timeout" /\ latency = 0 =>
               /\ i = maxAttempts
               /\ poll.requests = 20
               /\ poll.answers = 20
               /\ elapsed = 60000
               /\ err.message = MsgTimeoutAttempts(20, 60000))
        /\ (poll.outcome = "timeout" /\ i < maxAttempts =>
               /\ latency > 30000
               /\ elapsed > 90000
               /\ err.message = MsgTimeoutWall(elapsed))

\* C39 witness: twenty status requests answered 'processing' at once; the
\* polling ended by the attempt count at 60000 ms.
C39_Witness ==
    /\ variant \in WallClockVariants
    /\ lpc = "finally"
    /\ poll.outcome = "timeout"
    /\ poll.allProcessing
    /\ i = maxAttempts
    /\ slowLeft = MaxSlow
    /\ now - startTime = 60000
    /\ err.message = MsgTimeoutAttempts(20, 60000)

====
